---- MODULE Spec2Model ----
(***************************************************************************)
(* The analytics dashboard (analytics.js): the snapshot load pipeline, the *)
(* metric cards, the six chart views, the table and the export path.       *)
(* Every handler runs to its next await as one atomic step, as the         *)
(* single-threaded event loop runs it.                                     *)
(***************************************************************************)
EXTENDS Integers, Sequences, FiniteSets, TLC

(* ------------------------------ bounds --------------------------------- *)
\* snapshots of a response carry the days 1..MaxDay; today is MaxDay
MaxDay == 2
\* snapshot requests issued in one behaviour
MaxLoads == 2
\* export requests in flight at a time
MaxExports == 1
\* |oldValue|, |newValue| of the metric-change inputs
MaxValue == 4

\* setDefaultDateRange(30) of the DOMContentLoaded handler
DefaultDays == 30

VARIABLES
    authToken,          \* localStorage 'authToken' present
    initPc,             \* position of the DOMContentLoaded handler
    currentUser,        \* let currentUser
    analyticsData,      \* let analyticsData
    charts,             \* let charts: view -> chart object
    live,               \* live (constructed, not destroyed) Chart instances per canvas
    startDate, endDate, \* values of #start-date, #end-date
    starsChartType,     \* value of #stars-chart-type
    followersChartType, \* value of #followers-chart-type
    metricsGrid,        \* content of #metrics-grid
    languageCanvas,     \* #language-chart canvas is in the document
    tableBody,          \* rows of #table-body
    authWarning,        \* #auth-warning shown (and main content hidden)
    loads,              \* the loadAnalyticsData calls that reached fetch, in issue order
    exports,            \* the exportData calls in flight
    last,               \* what the most recent handler step called and alerted
    mOld, mNew, mOut    \* input and output of updateMetricChange on its own

vars == <<authToken, initPc, currentUser, analyticsData, charts, live,
          startDate, endDate, starsChartType, followersChartType, metricsGrid,
          languageCanvas, tableBody, authWarning, loads, exports,
          last, mOld, mNew, mOut>>

(* ------------------------------- data ---------------------------------- *)
Days == 1..MaxDay
Today == MaxDay

Views == {"stars", "followers", "repos", "commits", "language", "contribution"}
Metrics == {"stars", "followers", "repos", "commits"}
ChartTypes == {"line", "bar"}
ExportFormats == {"csv"}

\* a date input is empty (<<>>) or holds one day (<<d>>)
NoDate == <<>>
DateOf(d) == <<d>>

\* the kinds of snapshot the server may hold for a day
Variants == {"bare", "empty", "full"}

SnapshotOf(d, v) ==
    CASE v = "bare"  -> [snapshot_date |-> d, stars |-> 0, followers |-> 1, following |-> 2,
                         public_repos |-> 0, total_commits |-> 1]
      [] v = "empty" -> [snapshot_date |-> d, stars |-> 2, followers |-> 0, following |-> 1,
                         public_repos |-> 1, total_commits |-> 0, contribution_count |-> 0,
                         language_stats |-> <<>>]
      [] v = "full"  -> [snapshot_date |-> d, stars |-> 3, followers |-> 2, following |-> 0,
                         public_repos |-> 2, total_commits |-> 4, contribution_count |-> 5,
                         language_stats |-> << <<"JavaScript", 2>>, <<"Python", 1>> >>]

\* every snapshot list of one snapshot per day for the n days up to today,
\* ascending by date
SnapshotLists ==
    UNION {{[i \in 1..n |-> SnapshotOf(Today - n + i, vs[i])] : vs \in [1..n -> Variants]}
           : n \in 0..MaxDay}

(* --------------------------- formatting -------------------------------- *)
Abs(n) == IF n < 0 THEN -n ELSE n

\* Number.prototype.toLocaleString of a non-negative integer: its groups of
\* three digits, most significant first
RECURSIVE ToLocaleString(_)
ToLocaleString(n) ==
    IF n < 1000 THEN <<n>> ELSE Append(ToLocaleString(n \div 1000), n % 1000)

\* new Date(d).toLocaleDateString(): the text of a date, not the date
ToLocaleDateString(d) == [dateText |-> d]

(* IEEE 754 binary64 arithmetic on positive numbers. A natural number is the
   sequence of its binary digits, most significant first; a double is a
   significand of 53 digits and an exponent: [m |-> digits, e |-> k] is the
   number Value(m) * 2^k. Long division and multiplication work on words of
   WordSize digits, for divisors below 2^22. *)
Significand == 53
WordSize == 9
Radix == 512
FractionWords == 9

\* the element of a set of one element
The(S) == CHOOSE v \in S : TRUE

\* the w binary digits of n < 2^w
Word(n, w) == [j \in 1..w |-> (n \div 2^(w - j)) % 2]

\* the digits without their leading zeros
Strip(bits) ==
    IF \A i \in 1..Len(bits) : bits[i] = 0 THEN <<>>
    ELSE LET first == CHOOSE i \in 1..Len(bits) :
                          bits[i] = 1 /\ \A j \in 1..(i - 1) : bits[j] = 0
         IN  SubSeq(bits, first, Len(bits))

\* the number of at most 31 digits, leading zeros apart
RECURSIVE Value(_)
Value(bits) ==
    LET b == Strip(bits)
        h == Len(b) \div 2
    IN  IF Len(b) = 0 THEN 0
        ELSE IF Len(b) = 1 THEN 1
        ELSE Value(SubSeq(b, 1, h)) * 2^(Len(b) - h) + Value(SubSeq(b, h + 1, Len(b)))

\* m + 1 for m of 53 digits: 54 digits when every digit of m is 1
Successor(m) ==
    IF \A i \in 1..Len(m) : m[i] = 1 THEN <<1>> \o [i \in 1..Len(m) |-> 0]
    ELSE [j \in 1..Len(m) |->
             IF \A i \in (j + 1)..Len(m) : m[i] = 1 THEN 1 - m[j] ELSE m[j]]

\* round to nearest, ties to even: the double nearest to the number
\* bits * 2^e (plus a fraction of its last place when sticky), for bits of
\* more than 53 significant digits
RoundNearestEven(bits, sticky, e) ==
    LET b == Strip(bits)
        m == SubSeq(b, 1, Significand)
        guard == b[Significand + 1]
        rest == sticky \/ \E i \in (Significand + 2)..Len(b) : b[i] = 1
        up == guard = 1 /\ (rest \/ m[Significand] = 1)
        r == IF up THEN Successor(m) ELSE m
        dropped == Len(b) - Significand
    IN  IF Len(r) > Significand
        THEN [m |-> SubSeq(r, 1, Significand), e |-> e + dropped + 1]
        ELSE [m |-> r, e |-> e + dropped]

\* a * Radix^i modulo b
RECURSIVE Remainder(_, _, _)
Remainder(a, b, i) ==
    IF i = 0 THEN a % b ELSE (Remainder(a, b, i - 1) * Radix) % b

\* the double a / b of two positive integers: the integer part and
\* FractionWords words of the fraction by long division, rounded
Divide(a, b) ==
    LET width == WordSize * FractionWords
        fraction == [j \in 1..width |->
                        LET i == (j - 1) \div WordSize + 1
                            d == (Remainder(a, b, i - 1) * Radix) \div b
                        IN  Word(d, WordSize)[((j - 1) % WordSize) + 1]]
    IN  The({RoundNearestEven(q, Remainder(a, b, FractionWords) # 0, -width) :
                 q \in {Word(a \div b, 31) \o fraction}})

\* what the i lowest words of bits * k carry into the next word, for bits of
\* a whole number of words
RECURSIVE Carry(_, _, _)
Carry(bits, k, i) ==
    IF i = 0 THEN 0
    ELSE LET n == Len(bits)
             w == SubSeq(bits, n - i * WordSize + 1, n - (i - 1) * WordSize)
         IN  (Value(w) * k + Carry(bits, k, i - 1)) \div Radix

\* bits * k for 0 < k < Radix, word by word from the lowest
MulSmall(bits, k) ==
    LET words == (Len(bits) + WordSize - 1) \div WordSize
        padded == [i \in 1..(words * WordSize - Len(bits)) |-> 0] \o bits
        n == Len(padded)
        product == [j \in 1..n |->
                       LET i == (n - j) \div WordSize + 1
                           w == SubSeq(padded, n - i * WordSize + 1, n - (i - 1) * WordSize)
                           t == Value(w) * k + Carry(padded, k, i - 1)
                       IN  Word(t % Radix, WordSize)[WordSize - ((n - j) % WordSize)]]
    IN  Word(Carry(padded, k, words), WordSize) \o product

\* the double x * k of a double and a small positive integer
Times(x, k) == The({RoundNearestEven(p, FALSE, x.e) : p \in {MulSmall(x.m, k)}})

\* the integer n for which n / 10 - x is as close to zero as possible, the
\* larger n of two, for a double x below 2^52
NearestTenth(x) ==
    LET f == -x.e
    IN  The({Value(IF f >= Len(t) THEN <<>> ELSE SubSeq(t, 1, Len(t) - f))
                 + (IF f > Len(t) THEN 0 ELSE t[Len(t) - f + 1]) :
             t \in {MulSmall(x.m, 10)}})

\* toFixed(1) that cuts the digits after the first decimal instead of rounding
ToFixed1_Truncated(change, oldValue) ==
    LET q == (Abs(change) * 1000) \div oldValue
    IN  [fixed |-> TRUE, minus |-> change < 0, tenths |-> IF change < 0 THEN -q ELSE q]

\* ((change / oldValue) * 100).toFixed(1) for oldValue > 0: the text, by its
\* sign and its value in tenths. The quotient and the product are doubles,
\* off the exact percentage by less than 2^-50 of it, and toFixed takes the
\* tenth nearest to the product: the tenth nearest to the exact percentage,
\* except where that lies halfway between two tenths and the doubles decide.
ToFixed1(change, oldValue) ==
    LET a == Abs(change)
        halfway == (2000 * a) % (2 * oldValue) = oldValue
        n == IF a = 0 THEN 0
             ELSE IF halfway
             THEN The({NearestTenth(p) : p \in {Times(q, 100) : q \in {Divide(a, oldValue)}}})
             ELSE (2000 * a + oldValue) \div (2 * oldValue)
    IN  [fixed |-> TRUE, minus |-> change < 0, tenths |-> IF change < 0 THEN -n ELSE n]

(* ---------------------------- the metrics ------------------------------- *)
\* the snapshot field behind each metric card
MetricField(m) ==
    CASE m = "stars" -> "stars"
      [] m = "followers" -> "followers"
      [] m = "repos" -> "public_repos"
      [] m = "commits" -> "total_commits"

\* updateMetricChange with change >= 0 for change > 0
UpdateMetricChange_NoNeutral(oldValue, newValue) ==
    LET change == newValue - oldValue
        percentChange == IF oldValue > 0
                         THEN ToFixed1(change, oldValue)
                         ELSE [fixed |-> FALSE, minus |-> FALSE, tenths |-> 0]
        className == IF change >= 0 THEN "positive" ELSE "negative"
        symbol == IF change >= 0 THEN "up" ELSE "down"
    IN  [className |-> className, symbol |-> symbol,
         amount |-> ToLocaleString(Abs(change)), percent |-> percentChange]

\* updateMetricChange: the class and the text of #metric-<m>-change.
\* percent is the string of toFixed(1) (fixed, with its sign, in tenths) or
\* the number 0.
UpdateMetricChange(oldValue, newValue) ==
    LET change == newValue - oldValue
        percentChange == IF oldValue > 0
                         THEN ToFixed1(change, oldValue)
                         ELSE [fixed |-> FALSE, minus |-> FALSE, tenths |-> 0]
        className == IF change > 0 THEN "positive"
                     ELSE IF change < 0 THEN "negative" ELSE "neutral"
        symbol == IF change > 0 THEN "up"
                  ELSE IF change < 0 THEN "down" ELSE "right"
    IN  [className |-> className, symbol |-> symbol,
         amount |-> ToLocaleString(Abs(change)), percent |-> percentChange]

\* the metric cards as the page serves them
PlaceholderCard ==
    [value |-> <<>>,
     change |-> [className |-> "", symbol |-> "", amount |-> <<>>,
                 percent |-> [fixed |-> FALSE, tenths |-> 0]]]

InitialGrid == [emptyState |-> FALSE, cards |-> [m \in Metrics |-> PlaceholderCard]]

\* showEmptyState: the content of #metrics-grid is replaced by the
\* empty-state markup. The metric cards (#metric-<m>, #metric-<m>-change)
\* are taken to be children of #metrics-grid, the element showAuthWarning
\* hides as the page's metrics.
EmptyGrid == [emptyState |-> TRUE, cards |-> <<>>]

(* ------------------- the synchronous part of a handler ------------------ *)
\* The page as one handler step sees and changes it; calls lists the
\* functions entered, thrown says that the last of them threw.
World ==
    [charts |-> charts, live |-> live, metricsGrid |-> metricsGrid,
     languageCanvas |-> languageCanvas, tableBody |-> tableBody,
     calls |-> <<>>, thrown |-> FALSE]

Enter(w, f) == [w EXCEPT !.calls = Append(@, f)]
Throw(w) == [w EXCEPT !.thrown = TRUE]

NoChart == [type |-> "undefined"]
Truthy(c) == c.type # "undefined"

\* if (charts.<view>) charts.<view>.destroy()
DestroyPrevious(w, view) ==
    IF Truthy(w.charts[view])
    THEN [w EXCEPT !.charts[view].destroys = @ + 1,
                   !.live[view] = IF w.charts[view].destroys = 0 THEN @ - 1 ELSE @]
    ELSE w

\* charts.<view> = new Chart(ctx, config)
NewChart(w, view, type, labels, datasets) ==
    [w EXCEPT !.charts[view] = [type |-> type, labels |-> labels,
                                datasets |-> datasets, destroys |-> 0],
              !.live[view] = @ + 1]

Labels(data) == [i \in 1..Len(data) |-> ToLocaleDateString(data[i].snapshot_date)]
Column(data, field) == [i \in 1..Len(data) |-> data[i][field]]

\* updateMetrics with the baseline taken from the latest snapshot but one
UpdateMetrics_PreviousBaseline(w0, data) ==
    LET w == [w0 EXCEPT !.calls = Append(@, "updateMetrics")]
    IN  IF Len(data) = 0 THEN w
        ELSE IF w.metricsGrid.emptyState THEN [w EXCEPT !.thrown = TRUE]
        ELSE LET latest == data[Len(data)]
                 first == data[IF Len(data) > 1 THEN Len(data) - 1 ELSE 1]
             IN  [w EXCEPT !.metricsGrid.cards =
                    [m \in Metrics |->
                        [value |-> ToLocaleString(first[MetricField(m)]),
                         change |-> UpdateMetricChange(first[MetricField(m)],
                                                       latest[MetricField(m)])]]]

\* updateMetrics
UpdateMetrics(w0, data) ==
    LET w == Enter(w0, "updateMetrics")
    IN  IF Len(data) = 0 THEN w
        ELSE IF w.metricsGrid.emptyState THEN Throw(w)
        ELSE LET latest == data[Len(data)]
                 first == data[1]
             IN  [w EXCEPT !.metricsGrid.cards =
                    [m \in Metrics |->
                        [value |-> ToLocaleString(latest[MetricField(m)]),
                         change |-> UpdateMetricChange(first[MetricField(m)],
                                                       latest[MetricField(m)])]]]

\* renderStarsChart
RenderStarsChart(w0, data, chartType) ==
    LET w == DestroyPrevious(Enter(w0, "renderStarsChart"), "stars")
    IN  NewChart(w, "stars", chartType, Labels(data),
                 << [label |-> "Total Stars", data |-> Column(data, "stars"),
                     fill |-> (chartType = "line")] >>)

\* renderFollowersChart with the following series read from d.followers
RenderFollowersChart_Misaligned(w0, data, chartType) ==
    LET w == DestroyPrevious(Enter(w0, "renderFollowersChart"), "followers")
    IN  NewChart(w, "followers", chartType, Labels(data),
                 << [label |-> "Followers", data |-> Column(data, "followers"),
                     fill |-> (chartType = "line")],
                    [label |-> "Following", data |-> Column(data, "followers"),
                     fill |-> (chartType = "line")] >>)

\* renderFollowersChart
RenderFollowersChart(w0, data, chartType) ==
    LET w == DestroyPrevious(Enter(w0, "renderFollowersChart"), "followers")
        labels == Labels(data)
        followersData == Column(data, "followers")
        followingData == Column(data, "following")
    IN  NewChart(w, "followers", chartType, labels,
                 << [label |-> "Followers", data |-> followersData,
                     fill |-> (chartType = "line")],
                    [label |-> "Following", data |-> followingData,
                     fill |-> (chartType = "line")] >>)

\* renderReposChart
RenderReposChart(w0, data) ==
    LET w == DestroyPrevious(Enter(w0, "renderReposChart"), "repos")
    IN  NewChart(w, "repos", "line", Labels(data),
                 << [label |-> "Public Repositories",
                     data |-> Column(data, "public_repos"), fill |-> TRUE] >>)

\* renderCommitsChart
RenderCommitsChart(w0, data) ==
    LET w == DestroyPrevious(Enter(w0, "renderCommitsChart"), "commits")
    IN  NewChart(w, "commits", "bar", Labels(data),
                 << [label |-> "Total Commits",
                     data |-> Column(data, "total_commits")] >>)

\* latest.language_stats || {}: the mapping in its key order
LanguageStats(snapshot) ==
    IF "language_stats" \in DOMAIN snapshot THEN snapshot.language_stats ELSE <<>>

\* renderLanguageChart: getContext of the removed canvas throws; an empty
\* mapping replaces the canvas by the empty-state markup
RenderLanguageChart(w0, data) ==
    LET w1 == Enter(w0, "renderLanguageChart")
    IN  IF ~w1.languageCanvas THEN Throw(w1)
        ELSE LET w == DestroyPrevious(w1, "language")
             IN  IF Len(data) = 0 THEN Throw(w)
                 ELSE LET languageStats == LanguageStats(data[Len(data)])
                          labels == [i \in 1..Len(languageStats) |-> languageStats[i][1]]
                          values == [i \in 1..Len(languageStats) |-> languageStats[i][2]]
                      IN  IF Len(labels) = 0
                          THEN [w EXCEPT !.languageCanvas = FALSE]
                          ELSE NewChart(w, "language", "doughnut", labels,
                                        << [data |-> values] >>)

\* d.contribution_count || 0
ContributionCount(snapshot) ==
    IF "contribution_count" \in DOMAIN snapshot THEN snapshot.contribution_count ELSE 0

\* renderContributionChart
RenderContributionChart(w0, data) ==
    LET w == DestroyPrevious(Enter(w0, "renderContributionChart"), "contribution")
    IN  NewChart(w, "contribution", "line", Labels(data),
                 << [label |-> "Contributions",
                     data |-> [i \in 1..Len(data) |-> ContributionCount(data[i])],
                     fill |-> TRUE] >>)

\* renderCharts: the six views in order; a throw skips the rest
RenderCharts(w0, data, starsType, followersType) ==
    LET w1 == RenderStarsChart(Enter(w0, "renderCharts"), data, starsType)
        w2 == RenderFollowersChart(w1, data, followersType)
        w3 == RenderReposChart(w2, data)
        w4 == RenderCommitsChart(w3, data)
        w5 == RenderLanguageChart(w4, data)
    IN  IF w5.thrown THEN w5 ELSE RenderContributionChart(w5, data)

\* updateTable: one row per snapshot
UpdateTable(w0, data) ==
    [Enter(w0, "updateTable") EXCEPT !.tableBody =
        [i \in 1..Len(data) |->
            << ToLocaleDateString(data[i].snapshot_date),
               ToLocaleString(data[i].stars),
               ToLocaleString(data[i].followers),
               ToLocaleString(data[i].following),
               ToLocaleString(data[i].public_repos),
               ToLocaleString(data[i].total_commits),
               ToLocaleString(ContributionCount(data[i])) >>]]

\* showEmptyState
ShowEmptyState(w0) == [Enter(w0, "showEmptyState") EXCEPT !.metricsGrid = EmptyGrid]

\* lines 190-200 without the return after showEmptyState
RenderLoaded_NoReturn(w0, data, starsType, followersType) ==
    LET w1 == UpdateMetrics(IF Len(data) = 0 THEN ShowEmptyState(w0) ELSE w0, data)
        w2 == IF w1.thrown THEN w1 ELSE RenderCharts(w1, data, starsType, followersType)
    IN  IF w2.thrown THEN w2 ELSE UpdateTable(w2, data)

\* loadAnalyticsData from the assignment of analyticsData to the end of the
\* try block (lines 190-200)
RenderLoaded(w0, data, starsType, followersType) ==
    IF Len(data) = 0 THEN ShowEmptyState(w0)
    ELSE LET w1 == UpdateMetrics(w0, data)
             w2 == IF w1.thrown THEN w1 ELSE RenderCharts(w1, data, starsType, followersType)
         IN  IF w2.thrown THEN w2 ELSE UpdateTable(w2, data)

(* ------------------------------ the state ------------------------------- *)
NoUser == [login |-> "null"]
TheUser == [login |-> "user"]

NotComputed == [className |-> "not computed"]

Step(op, calls, alert) == [op |-> op, calls |-> calls, alert |-> alert]
\* a step that renders nothing and alerts nothing
Quiet == Step("other", <<>>, "none")

\* the page and the script's globals when the script has been evaluated
InitPage ==
    /\ initPc = "start"
    /\ currentUser = NoUser
    /\ analyticsData = <<>>
    /\ charts = [v \in Views |-> NoChart]
    /\ live = [v \in Views |-> 0]
    /\ startDate = NoDate
    /\ endDate = NoDate
    /\ starsChartType = "line"
    /\ followersChartType = "line"
    /\ metricsGrid = InitialGrid
    /\ languageCanvas = TRUE
    /\ tableBody = <<>>
    /\ authWarning = FALSE
    /\ loads = <<>>
    /\ exports = <<>>
    /\ last = Step("other", <<>>, "none")

Init ==
    /\ InitPage
    /\ authToken \in BOOLEAN
    /\ mOld = 0 /\ mNew = 0 /\ mOut = NotComputed

metricVars == <<mOld, mNew, mOut>>
serverVars == <<authToken>>
domVars == <<charts, live, metricsGrid, languageCanvas, tableBody>>

\* the page after the synchronous calls recorded in w
Apply(w) ==
    /\ charts' = w.charts
    /\ live' = w.live
    /\ metricsGrid' = w.metricsGrid
    /\ languageCanvas' = w.languageCanvas
    /\ tableBody' = w.tableBody

(* -------------------------- loadAnalyticsData --------------------------- *)
\* loadAnalyticsData up to its fetch, with the date inputs holding s and e:
\* the request it issues, if any
\* no response body: none has arrived, or it has been read
NoBody == [pending |-> TRUE]

Request(user, s, e) ==
    IF user = NoUser THEN <<>>
    ELSE IF s = NoDate \/ e = NoDate THEN <<>>
    ELSE << [pc |-> "fetch", body |-> NoBody, data |-> <<>>] >>

\* setDefaultDateRange(days): startDate.setDate(getDate() - days) keeps the
\* local time of day, so the start lies days * 24 hours back, moved by the
\* change of the zone's UTC offset between the two dates; toISOString gives
\* its UTC date. hour is the UTC hour of the clock, change the hours of
\* offset now minus offset then.
ClockHours == {0, 12, 23}
OffsetChanges == {-1, 0, 1}
DayShift(hour, change) ==
    IF hour + change < 0 THEN -1 ELSE IF hour + change >= 24 THEN 1 ELSE 0
DefaultStart(days, hour, change) == DateOf(Today - days + DayShift(hour, change))
DefaultEnd == DateOf(Today)

(* ----------------------- DOMContentLoaded handler ----------------------- *)
\* after await checkAuthentication(): setupEventListeners,
\* setDefaultDateRange(30), and the initial load if currentUser is set
AfterAuthentication(user) ==
    /\ initPc' = "done"
    /\ \E hour \in ClockHours, change \in OffsetChanges :
          /\ startDate' = DefaultStart(DefaultDays, hour, change)
          /\ loads' = loads \o Request(user, DefaultStart(DefaultDays, hour, change),
                                       DefaultEnd)
    /\ endDate' = DefaultEnd

\* checkAuthentication without a token: showAuthWarning and return
InitNoToken ==
    /\ initPc = "start"
    /\ ~authToken
    /\ authWarning' = TRUE
    /\ AfterAuthentication(currentUser)
    /\ last' = Quiet
    /\ UNCHANGED <<currentUser, analyticsData, starsChartType, followersChartType,
                   exports>>
    /\ UNCHANGED <<domVars, serverVars, metricVars>>

\* checkAuthentication with a token: fetch /user/profile
InitFetchProfile ==
    /\ initPc = "start"
    /\ authToken
    /\ initPc' = "profile fetch"
    /\ last' = Quiet
    /\ UNCHANGED <<currentUser, analyticsData, startDate, endDate, starsChartType,
                   followersChartType, authWarning, loads, exports>>
    /\ UNCHANGED <<domVars, serverVars, metricVars>>

\* the profile response: ok, not ok, or the fetch rejects
ProfileResponse(outcome) ==
    /\ initPc = "profile fetch"
    /\ IF outcome = "ok"
       THEN /\ initPc' = "profile json"
            /\ last' = Quiet
            /\ UNCHANGED <<authWarning, startDate, endDate, loads>>
       ELSE /\ authWarning' = TRUE
            /\ AfterAuthentication(currentUser)
            /\ last' = Quiet
    /\ UNCHANGED <<currentUser, analyticsData, starsChartType, followersChartType,
                   exports>>
    /\ UNCHANGED <<domVars, serverVars, metricVars>>

\* response.json() of the profile: currentUser is set, or the parse rejects
ProfileJson(parsed) ==
    /\ initPc = "profile json"
    /\ IF parsed
       THEN /\ currentUser' = TheUser
            /\ authWarning' = FALSE
            /\ AfterAuthentication(TheUser)
            /\ last' = Quiet
       ELSE /\ authWarning' = TRUE
            /\ AfterAuthentication(currentUser)
            /\ last' = Quiet
            /\ UNCHANGED currentUser
    /\ UNCHANGED <<analyticsData, starsChartType, followersChartType, exports>>
    /\ UNCHANGED <<domVars, serverVars, metricVars>>

(* ----------------------------- user actions ----------------------------- *)
\* the listeners exist once setupEventListeners has run
Listening == initPc = "done" /\ Len(loads) < MaxLoads

\* the days a quick-range button may carry
QuickRanges == {DefaultDays}

\* click on a [data-range] button
ClickRange(days) ==
    /\ Listening
    /\ \E hour \in ClockHours, change \in OffsetChanges :
          /\ startDate' = DefaultStart(days, hour, change)
          /\ loads' = loads \o Request(currentUser, DefaultStart(days, hour, change),
                                       DefaultEnd)
    /\ endDate' = DefaultEnd
    /\ last' = Quiet
    /\ UNCHANGED <<initPc, currentUser, analyticsData, starsChartType, followersChartType,
                   authWarning, exports>>
    /\ UNCHANGED <<domVars, serverVars, metricVars>>

\* change of #start-date to v (a day or empty)
ChangeStartDate(v) ==
    /\ Listening
    /\ v # startDate
    /\ startDate' = v
    /\ loads' = loads \o Request(currentUser, v, endDate)
    /\ last' = Quiet
    /\ UNCHANGED <<initPc, currentUser, analyticsData, endDate, starsChartType,
                   followersChartType, authWarning, exports>>
    /\ UNCHANGED <<domVars, serverVars, metricVars>>

\* change of #end-date to v (a day or empty)
ChangeEndDate(v) ==
    /\ Listening
    /\ v # endDate
    /\ endDate' = v
    /\ loads' = loads \o Request(currentUser, startDate, v)
    /\ last' = Quiet
    /\ UNCHANGED <<initPc, currentUser, analyticsData, startDate, starsChartType,
                   followersChartType, authWarning, exports>>
    /\ UNCHANGED <<domVars, serverVars, metricVars>>

\* click on #refresh-data-btn
ClickRefresh ==
    /\ Listening
    /\ loads' = loads \o Request(currentUser, startDate, endDate)
    /\ last' = Quiet
    /\ UNCHANGED <<initPc, currentUser, analyticsData, startDate, endDate, starsChartType,
                   followersChartType, authWarning, exports>>
    /\ UNCHANGED <<domVars, serverVars, metricVars>>

\* change of #stars-chart-type: updateChartType('stars', t)
ChangeStarsChartType(t) ==
    /\ initPc = "done"
    /\ t # starsChartType
    /\ starsChartType' = t
    /\ LET w == RenderStarsChart(Enter(World, "updateChartType"), analyticsData, t)
       IN  Apply(w) /\ last' = Step("stars-chart-type", w.calls, "none")
    /\ UNCHANGED <<initPc, currentUser, analyticsData, startDate, endDate,
                   followersChartType, authWarning, loads, exports>>
    /\ UNCHANGED <<serverVars, metricVars>>

\* change of #followers-chart-type: updateChartType('followers', t)
ChangeFollowersChartType(t) ==
    /\ initPc = "done"
    /\ t # followersChartType
    /\ followersChartType' = t
    /\ LET w == RenderFollowersChart(Enter(World, "updateChartType"), analyticsData, t)
       IN  Apply(w) /\ last' = Step("followers-chart-type", w.calls, "none")
    /\ UNCHANGED <<initPc, currentUser, analyticsData, startDate, endDate,
                   starsChartType, authWarning, loads, exports>>
    /\ UNCHANGED <<serverVars, metricVars>>

(* ------------------------- responses of a load -------------------------- *)
\* a catch block of loadAnalyticsData that issues the request again
LoadFailed_Retries(i, calls) ==
    /\ loads' = Append([loads EXCEPT ![i].pc = "failed", ![i].body = NoBody],
                       [pc |-> "fetch", body |-> NoBody, data |-> <<>>])
    /\ last' = Step("load failed", Append(calls, "showError"),
                    "Failed to load analytics data")

\* the catch block of loadAnalyticsData: showError
LoadFailed(i, calls) ==
    /\ loads' = [loads EXCEPT ![i].pc = "failed", ![i].body = NoBody]
    /\ last' = Step("load failed", Append(calls, "showError"),
                    "Failed to load analytics data")

\* the snapshot fetch of load i settles: ok with a response that carries
\* body, or not ok or rejected, and then no body is read
FetchResponse(i, outcome, body) ==
    /\ i \in 1..Len(loads)
    /\ loads[i].pc = "fetch"
    /\ (outcome = "ok") = (body # NoBody)
    /\ IF outcome = "ok"
       THEN /\ loads' = [loads EXCEPT ![i].pc = "json", ![i].body = body]
            /\ last' = Quiet
       ELSE LoadFailed(i, <<>>)
    /\ UNCHANGED <<initPc, currentUser, analyticsData, startDate, endDate, starsChartType,
                   followersChartType, authWarning, exports>>
    /\ UNCHANGED <<domVars, serverVars, metricVars>>

\* response.json() of load i rejects: the body breaks off or is no JSON
JsonRejected(i) ==
    /\ i \in 1..Len(loads)
    /\ loads[i].pc = "json"
    /\ LoadFailed(i, <<>>)
    /\ UNCHANGED <<initPc, currentUser, analyticsData, startDate, endDate, starsChartType,
                   followersChartType, authWarning, exports>>
    /\ UNCHANGED <<domVars, serverVars, metricVars>>

\* what a completed load leaves in its record
Outcome(w, data) ==
    IF w.thrown THEN "threw" ELSE IF Len(data) = 0 THEN "empty" ELSE "rendered"

\* the snapshots of the body appended to the held sequence
SnapshotsOf_Merged(body) ==
    analyticsData \o (IF "snapshots" \in DOMAIN body THEN body.snapshots ELSE <<>>)

\* data.snapshots || []
SnapshotsOf(body) == IF "snapshots" \in DOMAIN body THEN body.snapshots ELSE <<>>

\* response.json() of load i resolves with the body of its response:
\* analyticsData is replaced and the page rendered from it
JsonResponse(i) ==
    /\ i \in 1..Len(loads)
    /\ loads[i].pc = "json"
    /\ \E data \in {SnapshotsOf(loads[i].body)} :
       \E w \in {RenderLoaded(World, data, starsChartType, followersChartType)} :
           /\ analyticsData' = data
           /\ Apply(w)
           /\ loads' = [loads EXCEPT ![i].pc = Outcome(w, data), ![i].body = NoBody,
                                      ![i].data = data]
           /\ last' = IF w.thrown
                      THEN Step("load completed", Append(w.calls, "showError"),
                                "Failed to load analytics data")
                      ELSE Step("load completed", w.calls, "none")
    /\ UNCHANGED <<initPc, currentUser, startDate, endDate, starsChartType,
                   followersChartType, authWarning, exports>>
    /\ UNCHANGED <<serverVars, metricVars>>

(* ------------------------------- export --------------------------------- *)
\* click on an .export-option: exportData(format) up to its fetch
ExportData(format) ==
    /\ initPc = "done"
    /\ Len(exports) < MaxExports
    /\ exports' = Append(exports, [format |-> format, pc |-> "fetch"])
    /\ last' = Quiet
    /\ UNCHANGED <<initPc, currentUser, analyticsData, startDate, endDate, starsChartType,
                   followersChartType, authWarning, loads>>
    /\ UNCHANGED <<domVars, serverVars, metricVars>>

Remove(seq, i) == SubSeq(seq, 1, i - 1) \o SubSeq(seq, i + 1, Len(seq))

\* a catch block of exportData that also drops the held sequence
ExportFailed_Clears(i) ==
    /\ exports' = Remove(exports, i)
    /\ last' = Step("export", <<"showError">>, "Failed to export data")
    /\ analyticsData' = <<>>
    /\ UNCHANGED <<initPc, currentUser, startDate, endDate, starsChartType,
                   followersChartType, authWarning, loads>>
    /\ UNCHANGED <<domVars, serverVars, metricVars>>

\* the catch block of exportData: showError
ExportFailed(i) ==
    /\ exports' = Remove(exports, i)
    /\ last' = Step("export", <<"showError">>, "Failed to export data")
    /\ UNCHANGED <<initPc, currentUser, analyticsData, startDate, endDate, starsChartType,
                   followersChartType, authWarning, loads>>
    /\ UNCHANGED <<domVars, serverVars, metricVars>>

\* the export fetch of export i settles: ok, not ok, or it rejects
ExportResponse(i, outcome) ==
    /\ i \in 1..Len(exports)
    /\ exports[i].pc = "fetch"
    /\ IF outcome = "ok"
       THEN /\ exports' = [exports EXCEPT ![i].pc = "blob"]
            /\ last' = Quiet
            /\ UNCHANGED <<initPc, currentUser, analyticsData, startDate, endDate,
                           starsChartType, followersChartType, authWarning, loads>>
            /\ UNCHANGED <<domVars, serverVars, metricVars>>
       ELSE ExportFailed(i)

\* response.blob() of export i settles: the download, hideExportModal and
\* showSuccess, or the catch block
ExportBlob(i, resolved) ==
    /\ i \in 1..Len(exports)
    /\ exports[i].pc = "blob"
    /\ IF resolved
       THEN /\ exports' = Remove(exports, i)
            /\ last' = Step("export", <<"download", "hideExportModal", "showSuccess">>,
                            "Data exported successfully")
            /\ UNCHANGED <<initPc, currentUser, analyticsData, startDate, endDate,
                           starsChartType, followersChartType, authWarning, loads>>
            /\ UNCHANGED <<domVars, serverVars, metricVars>>
       ELSE ExportFailed(i)

(* --------------------------- specifications ----------------------------- *)
DateValues == {NoDate, DateOf(Today)}
\* the bodies GET /analytics/snapshots answers with: no snapshot in the
\* range, and lists that end without and with language statistics
ResponseLists ==
    { <<>>,
      << SnapshotOf(1, "bare") >>,
      << SnapshotOf(1, "bare"), SnapshotOf(2, "full") >> }
Bodies == {[snapshots |-> l] : l \in ResponseLists}
FetchOutcomes == {"ok", "not ok", "rejected"}

Next ==
    \/ InitNoToken
    \/ InitFetchProfile
    \/ \E o \in FetchOutcomes : ProfileResponse(o)
    \/ \E parsed \in BOOLEAN : ProfileJson(parsed)
    \/ \E days \in QuickRanges : ClickRange(days)
    \/ \E v \in DateValues : ChangeStartDate(v)
    \/ \E v \in DateValues : ChangeEndDate(v)
    \/ ClickRefresh
    \/ \E t \in ChartTypes : ChangeStarsChartType(t)
    \/ \E t \in ChartTypes : ChangeFollowersChartType(t)
    \/ \E i \in 1..MaxLoads, o \in FetchOutcomes, b \in Bodies \cup {NoBody} :
          FetchResponse(i, o, b)
    \/ \E i \in 1..MaxLoads : JsonRejected(i)
    \/ \E i \in 1..MaxLoads : JsonResponse(i)
    \/ \E f \in ExportFormats : ExportData(f)
    \/ \E i \in 1..MaxExports, o \in FetchOutcomes : ExportResponse(i, o)
    \/ \E i \in 1..MaxExports, r \in BOOLEAN : ExportBlob(i, r)

Spec == Init /\ [][Next]_vars

\* updateMetricChange on its own, over every pair of inputs within the bound
\* a baseline and a value whose percentage, 28.75, lies halfway between two
\* tenths
HalfwayValues == {80, 103}
MetricValues == (-MaxValue)..MaxValue \cup HalfwayValues

InitMetric ==
    /\ InitPage
    /\ authToken = FALSE
    /\ mOld \in MetricValues
    /\ mNew \in MetricValues
    /\ mOut = NotComputed

CallUpdateMetricChange ==
    /\ mOut = NotComputed
    /\ mOut' = UpdateMetricChange(mOld, mNew)
    /\ UNCHANGED <<initPc, currentUser, analyticsData, startDate, endDate, starsChartType,
                   followersChartType, authWarning, loads, exports, last,
                   mOld, mNew>>
    /\ UNCHANGED <<domVars, serverVars>>

NextMetric == CallUpdateMetricChange

SpecMetric == InitMetric /\ [][NextMetric]_vars

\* the first load of the page over every snapshot list within the bound and
\* a body without a snapshots field, and the chart type selectors
RenderBodies ==
    {[snapshots |-> l] : l \in SnapshotLists} \cup {[message |-> "no snapshots"]}

NextRender ==
    \/ InitNoToken
    \/ InitFetchProfile
    \/ \E o \in FetchOutcomes : ProfileResponse(o)
    \/ \E parsed \in BOOLEAN : ProfileJson(parsed)
    \/ \E t \in ChartTypes : ChangeStarsChartType(t)
    \/ \E t \in ChartTypes : ChangeFollowersChartType(t)
    \/ \E o \in FetchOutcomes, b \in RenderBodies \cup {NoBody} : FetchResponse(1, o, b)
    \/ JsonRejected(1)
    \/ JsonResponse(1)

SpecRender == Init /\ [][NextRender]_vars

(* ------------------------------- claims --------------------------------- *)
Range(f) == {f[i] : i \in DOMAIN f}
InFlight(i) == loads[i].pc \in {"fetch", "json"}
Latest(data) == data[Len(data)]

\* C1: when every issued load has completed and rendered a non-empty list,
\* the held sequence is the list of the load issued last, whatever the order
\* in which the responses arrived.
C1_LatestIssuedIsHeld ==
    (/\ Len(loads) >= 2
     /\ \A i \in 1..Len(loads) : loads[i].pc = "rendered")
    => analyticsData = loads[Len(loads)].data

\* the snapshot list a response body carries
ListOf(body) == IF "snapshots" \in DOMAIN body THEN body.snapshots ELSE <<>>

\* C2: the held sequence is always empty or the whole list of one response;
\* the step that completes a load makes it exactly the list of that load's
\* response, and no other step changes it, so it is the list of the response
\* that completed most recently; after a completion that rendered, the cards,
\* the date-labelled charts and the table all show the held sequence.
C2_HeldIsOneResponse == analyticsData \in ResponseLists

C2_RenderedFromHeld ==
    (last.op = "load completed" /\ last.alert = "none" /\ Len(analyticsData) > 0)
    => /\ \A m \in Metrics :
            metricsGrid.cards[m].value
                = ToLocaleString(Latest(analyticsData)[MetricField(m)])
       /\ \A v \in Views \ {"language"} : charts[v].labels = Labels(analyticsData)
       /\ Len(tableBody) = Len(analyticsData)
       /\ \A i \in 1..Len(tableBody) :
            tableBody[i][1] = ToLocaleDateString(analyticsData[i].snapshot_date)

C2_OnlyCompletionsWrite ==
    analyticsData' # analyticsData
    => \E i \in 1..Len(loads) :
          loads[i].pc = "json" /\ loads'[i].pc \in {"rendered", "empty", "threw"}

C2_CompletionHoldsItsResponse ==
    \A i \in 1..Len(loads) :
        (loads[i].pc = "json" /\ loads'[i].pc \in {"rendered", "empty", "threw"})
        => /\ analyticsData' = ListOf(loads[i].body)
           /\ loads'[i].data = ListOf(loads[i].body)

C2_LastCompletionHeld ==
    /\ [](C2_HeldIsOneResponse /\ C2_RenderedFromHeld)
    /\ [][C2_OnlyCompletionsWrite /\ C2_CompletionHoldsItsResponse]_vars

\* two loads overlapped with responses of different lists, the one issued
\* first completed last, and its response's list is held
C2_Witness ==
    /\ Len(loads) = 2
    /\ loads[1].pc = "rendered" /\ loads[2].pc = "rendered"
    /\ last.op = "load completed"
    /\ Len(loads[2].data) > 0
    /\ loads[1].data # loads[2].data
    /\ analyticsData = loads[1].data

\* C3: after a load has run updateMetrics on a non-empty sequence, every
\* metric card shows the value of the last snapshot and the change last minus
\* first, by its amount and its sign.
C3_ChangeIsLastMinusFirst ==
    (/\ last.op = "load completed"
     /\ "updateMetrics" \in Range(last.calls)
     /\ last.alert = "none")
    => \A m \in Metrics :
          LET f == MetricField(m)
              delta == Latest(analyticsData)[f] - analyticsData[1][f]
              card == metricsGrid.cards[m]
          IN  /\ card.value = ToLocaleString(Latest(analyticsData)[f])
              /\ card.change.amount = ToLocaleString(Abs(delta))
              /\ (card.change.className = "negative") = (delta < 0)
              /\ (card.change.className = "positive") = (delta > 0)

\* the stars fell over a sequence of more than one snapshot
C3_Witness ==
    /\ last.op = "load completed"
    /\ "updateMetrics" \in Range(last.calls)
    /\ Len(analyticsData) > 1
    /\ metricsGrid.cards["stars"].change.className = "negative"
    /\ metricsGrid.cards["stars"].change.amount = <<1>>

Computed == mOut # NotComputed

\* C4 as stated: percent is 0 for a zero baseline, and exactly
\* (newValue - oldValue) / oldValue * 100 for a positive baseline.
C4_PercentIsExact ==
    Computed
    => /\ (mOld = 0 /\ mNew >= 0) => mOut.percent = [fixed |-> FALSE, minus |-> FALSE, tenths |-> 0]
       /\ mOld > 0 => mOut.percent.tenths * mOld = (mNew - mOld) * 1000

\* C4 as amended: percent is 0 for a zero baseline, and for a positive
\* baseline it is (newValue - oldValue) / oldValue * 100 rounded to one
\* decimal place: the tenth nearest to the quotient.
C4_PercentIsRounded ==
    Computed
    => /\ (mOld = 0 /\ mNew >= 0) => mOut.percent = [fixed |-> FALSE, minus |-> FALSE, tenths |-> 0]
       /\ mOld > 0 =>
            /\ mOut.percent.fixed
            /\ 2 * Abs(mOut.percent.tenths * mOld - (mNew - mOld) * 1000) <= mOld

\* baseline 3, current 4: 33.3
C4_Witness == Computed /\ mOld = 3 /\ mNew = 4 /\ mOut.percent.tenths = 333

\* C5: the direction is positive iff the change is above 0, negative iff it
\* is below 0 and neutral iff it is 0; it is one of the three.
C5_DirectionIsSign ==
    Computed
    => /\ mOut.className \in {"positive", "negative", "neutral"}
       /\ (mOut.className = "positive") = (mNew - mOld > 0)
       /\ (mOut.className = "negative") = (mNew - mOld < 0)
       /\ (mOut.className = "neutral") = (mNew - mOld = 0)

\* a fall between two negative values
C5_Witness == Computed /\ mOld < 0 /\ mNew < mOld /\ mOut.className = "negative"

\* C6: a load that completes with zero snapshots calls showEmptyState and
\* nothing else, and shows no error message.
C6_EmptyIsNoError ==
    (last.op = "load completed" /\ Len(analyticsData) = 0)
    => /\ last.calls = <<"showEmptyState">>
       /\ last.alert = "none"
       /\ metricsGrid.emptyState

\* an empty result after a load that rendered
C6_Witness ==
    /\ last.op = "load completed"
    /\ Len(analyticsData) = 0
    /\ live["stars"] = 1
    /\ metricsGrid.emptyState

\* C7: no step of exportData changes analyticsData, charts or the date
\* range, and an export whose fetch fails or answers not ok shows the
\* failure message.
C7_ExportStep ==
    exports' # exports
    => /\ analyticsData' = analyticsData
       /\ charts' = charts
       /\ startDate' = startDate /\ endDate' = endDate
       /\ \A i \in 1..Len(exports) :
            (exports[i].pc = "fetch" /\ exports' = Remove(exports, i))
            => last'.alert = "Failed to export data"
       /\ Len(exports') < Len(exports)
            => \/ last'.alert = "Failed to export data"
               \/ /\ last'.alert = "Data exported successfully"
                  /\ \E i \in 1..Len(exports) :
                        exports[i].pc = "blob" /\ exports' = Remove(exports, i)

C7_ExportLeavesData == [][C7_ExportStep]_vars

\* an export failed while a load was in flight over a loaded sequence
C7_Witness ==
    /\ last.alert = "Failed to export data"
    /\ Len(analyticsData) > 0
    /\ Truthy(charts["stars"])
    /\ \E i \in 1..Len(loads) : InFlight(i)

\* C8: a step that calls renderLanguageChart leaves the empty state and no
\* live language chart when the last snapshot has no language statistics,
\* and otherwise one live chart with a label and a value per language key
\* of the last snapshot.
C8_LanguageChartOrEmptyState ==
    ("renderLanguageChart" \in Range(last.calls))
    => LET stats == LanguageStats(Latest(analyticsData))
       IN  IF Len(stats) = 0
           THEN ~languageCanvas /\ live["language"] = 0
           ELSE /\ live["language"] = 1
                /\ Truthy(charts["language"])
                /\ charts["language"].destroys = 0
                /\ charts["language"].labels = [i \in 1..Len(stats) |-> stats[i][1]]
                /\ charts["language"].datasets[1].data
                      = [i \in 1..Len(stats) |-> stats[i][2]]

\* C9: the followers view built by renderFollowersChart has a label, a
\* followers value and a following value per snapshot of the held sequence,
\* each taken from the snapshot of the same index.
C9_FollowersAligned ==
    ("renderFollowersChart" \in Range(last.calls))
    => LET c == charts["followers"]
           n == Len(analyticsData)
       IN  /\ Len(c.labels) = n
           /\ Len(c.datasets) = 2
           /\ Len(c.datasets[1].data) = n
           /\ Len(c.datasets[2].data) = n
           /\ \A i \in 1..n :
                /\ c.labels[i] = ToLocaleDateString(analyticsData[i].snapshot_date)
                /\ c.datasets[1].data[i] = analyticsData[i].followers
                /\ c.datasets[2].data[i] = analyticsData[i].following

\* a followers view over snapshots whose followers and following differ
C9_Witness ==
    /\ last.op = "followers-chart-type"
    /\ "renderFollowersChart" \in Range(last.calls)
    /\ Len(analyticsData) > 1
    /\ charts["followers"].datasets[1].data # charts["followers"].datasets[2].data
    /\ charts["followers"].datasets[1].data[1] # charts["followers"].datasets[1].data[2]

\* C10: every load that completes with a non-empty sequence calls
\* updateMetrics, the six chart renders and updateTable, and shows no error.
C10_EveryLoadRenders ==
    (last.op = "load completed" /\ Len(analyticsData) > 0)
    => /\ last.alert = "none"
       /\ last.calls = <<"updateMetrics", "renderCharts", "renderStarsChart",
                         "renderFollowersChart", "renderReposChart",
                         "renderCommitsChart", "renderLanguageChart",
                         "renderContributionChart", "updateTable">>

\* C11: the step in which a load fails (its fetch rejects or answers not
\* ok, or its body fails to parse) leaves analyticsData and charts
\* unchanged, shows the error message and issues no request; no step issues
\* more than one request or issues a settled request again.
C11_FailedStep ==
    \A i \in 1..Len(loads) :
        (InFlight(i) /\ Len(loads') >= i /\ loads'[i].pc = "failed")
        => /\ analyticsData' = analyticsData
           /\ charts' = charts
           /\ last'.alert = "Failed to load analytics data"
           /\ last'.calls = <<"showError">>
           /\ Len(loads') = Len(loads)

C11_AtMostOneRequest ==
    /\ Len(loads') <= Len(loads) + 1
    /\ Len(loads') >= Len(loads)
    /\ \A j \in 1..Len(loads) : loads'[j].pc = "fetch" => loads[j].pc = "fetch"

C11_FailedLoadKeepsData == [][C11_FailedStep /\ C11_AtMostOneRequest]_vars

\* a load failed over a loaded and rendered sequence
C11_Witness ==
    /\ last.op = "load failed"
    /\ Len(analyticsData) > 0
    /\ Truthy(charts["stars"])
    /\ \E i \in 1..Len(loads) : loads[i].pc = "failed"

\* C12: every view has at most one live chart, the one registered for it;
\* no chart is destroyed twice and no destroyed chart is left registered.
C12_OneLiveChart ==
    \A v \in Views :
        /\ live[v] <= 1
        /\ live[v] = 1 => (Truthy(charts[v]) /\ charts[v].destroys = 0)

C12_NoDoubleDestroy == \A v \in Views : Truthy(charts[v]) => charts[v].destroys <= 1

C12_NoDestroyedRegistered == \A v \in Views : Truthy(charts[v]) => charts[v].destroys = 0

C12_ChartsDisciplined ==
    C12_OneLiveChart /\ C12_NoDoubleDestroy /\ C12_NoDestroyedRegistered

\* C13: while currentUser is null no snapshot request is issued, the held
\* sequence stays empty and no chart is created; a request is issued only
\* with both date inputs filled.
C13_NoRequest == currentUser = NoUser => Len(loads) = 0

C13_NoData == currentUser = NoUser => analyticsData = <<>>

C13_NoChart == currentUser = NoUser => \A v \in Views : ~Truthy(charts[v])

C13_DatesNeeded == Len(loads') > Len(loads) => (startDate' # NoDate /\ endDate' # NoDate)

C13_GatedByProfile ==
    /\ [](C13_NoRequest /\ C13_NoData /\ C13_NoChart)
    /\ [][C13_DatesNeeded]_vars

====
